---- MODULE Spec2Model ----
(***************************************************************************)
(* tryloop: the loop editor (hint budget, tiered coach), the grade         *)
(* endpoint and the rules engine, as a state machine.                      *)
(*                                                                         *)
(* One editor instance is modelled, as React runs it: a handler, a promise *)
(* continuation or a navigation commits its state updates, re-renders and  *)
(* runs the effects of that render as one step.  Requests sent with fetch  *)
(* stay in flight until their continuation runs; the closure of the        *)
(* handler that sent them holds the values of the render it was made in.   *)
(***************************************************************************)
EXTENDS Integers, Sequences, FiniteSets, Bags, TLC

\* ---------------------------------------------------------------- bounds
\* hint requests that may await their response at the same time
MaxInFlight == 2

\* ------------------------------------------------------------ JS values
\* null / undefined, and a present value
NULL == <<>>
Some(x) == <<x>>

Max(a, b) == IF a >= b THEN a ELSE b
Min(a, b) == IF a <= b THEN a ELSE b

Digit == <<"0", "1", "2", "3", "4", "5", "6", "7", "8", "9">>

RECURSIVE NatString(_)
NatString(n) ==
  IF n < 10 THEN <<Digit[n + 1]>>
  ELSE Append(NatString(n \div 10), Digit[(n % 10) + 1])

\* String(n) of an integer: its decimal digits, as a sequence of characters
JsString(n) == IF n < 0 THEN <<"-">> \o NatString(0 - n) ELSE NatString(n)

DigitVal(c) == CHOOSE d \in 0..9 : Digit[d + 1] = c
IsDigits(s) == \A i \in 1..Len(s) : \E d \in 0..9 : Digit[d + 1] = s[i]

RECURSIVE NatValue(_)
NatValue(s) ==
  IF Len(s) = 0 THEN 0
  ELSE 10 * NatValue(SubSeq(s, 1, Len(s) - 1)) + DigitVal(s[Len(s)])

\* Number(s): the empty string is 0, a decimal numeral is its value, anything
\* else is NaN (finite = FALSE)
JsNumber(s) ==
  IF IsDigits(s) THEN [finite |-> TRUE, n |-> NatValue(s)]
  ELSE IF Len(s) > 1 /\ s[1] = "-" /\ IsDigits(Tail(s))
       THEN [finite |-> TRUE, n |-> 0 - NatValue(Tail(s))]
       ELSE [finite |-> FALSE, n |-> 0]

\* ------------------------------------------------------------ exercises
Loops == {"loop-001", "loop-002"}

Starter == "export function filterAdults(users) { return users; }"

\* loop.json of an exercise, as the page loads it
LoopJson(l) ==
  [id |-> l,
   hintBudget |-> IF l = "loop-001" THEN 3 ELSE 0,
   starter |-> Starter,
   docs |-> IF l = "loop-001"
            THEN <<[label |-> "Array.prototype.filter()",
                    url |-> "https://developer.mozilla.org/filter"]>>
            ELSE <<>>]

\* ------------------------------------------------------- submitted code
\* The texts a learner may have in the editor.  The two regular expressions
\* of the rules engine are tabulated on them.
CodeCmpReturn == "export function filterAdults(users) { return users.filter((user) => user > 18); }"
CodeCmpNoReturn == "export function filterAdults(users) { users.filter((u) => u > 18); }"
CodeNoReturn == "export function filterAdults(users) { users.filter((user) => user.age >= 18); }"
AllCodes == {"", Starter, CodeCmpReturn, CodeCmpNoReturn, CodeNoReturn}

\* /\b(user|u)\s*>\s*\d+/.test(code)
comparingObjectToNumber(code) == code \in {CodeCmpReturn, CodeCmpNoReturn}
\* !/\breturn\b/.test(code)
missingReturn(code) == code \notin {Starter, CodeCmpReturn}

\* ------------------------------------------------------------ test records
AllUiStates == {"pass", "fail", "skip", "todo", "unknown"}
NameOnly == "returns only users with age >= 18"
NameExactly == "includes users who are exactly 18"
NameExactlyCaps == "Includes Users Who Are Exactly 18"
NameEmpty == "returns an empty array when given an empty array"
AllTestNames == {NameOnly, NameExactly, NameExactlyCaps, NameEmpty}

\* s.toLowerCase()
ToLowerCase(s) == IF s = NameExactlyCaps THEN NameExactly ELSE s

\* s.includes(phrase), for the two phrases the engine looks for
Includes(s, phrase) ==
  /\ phrase \in {"exactly 18", "includes users"}
  /\ s = NameExactly

FilterFail(tests) == SelectSeq(tests, LAMBDA t : t.state = "fail")

\* the lower-cased names and error messages of the failing tests; the engine
\* joins them into one text and searches that
textFromFails(fails) ==
  [i \in 1..Len(fails) |-> ToLowerCase(fails[i].name)]
    \o [i \in 1..Len(fails) |->
          IF "error" \in DOMAIN fails[i] THEN ToLowerCase(fails[i].error) ELSE ""]

TextIncludes(failText, phrase) ==
  \E i \in 1..Len(failText) : Includes(failText[i], phrase)

\* --------------------------------------------------------- rules engine
\* the tier taken as given, 1 when absent
clampTier_AsGiven(tier) == IF tier = NULL THEN 1 ELSE tier[1]
clampTier(tier) ==
  IF tier = Some(2) THEN 2
  ELSE IF tier = Some(3) THEN 3
  ELSE 1

DefaultDoc == [label |-> "MDN JavaScript", url |-> "https://developer.mozilla.org/en-US/docs/Web/JavaScript"]

firstDoc(loop) == IF Len(loop.docs) > 0 THEN loop.docs[1] ELSE DefaultDoc

\* d.label.toLowerCase().includes('filter')
LabelHasFilter(d) == d.label = "Array.prototype.filter()"

\* loop.docs?.find(...) ?? doc
FilterDoc(loop, doc) ==
  LET hits == SelectSeq(loop.docs, LabelHasFilter)
  IN IF Len(hits) > 0 THEN hits[1] ELSE doc

\* The rule that wins: the first of the three whose predicate matches.
MatchedRule(code, failText) ==
  IF comparingObjectToNumber(code) THEN "comparingObjectToNumber"
  ELSE IF TextIncludes(failText, "exactly 18") \/ TextIncludes(failText, "includes users")
       THEN "boundary18"
  ELSE IF missingReturn(code) THEN "missingReturn"
  ELSE "none"

BaselineNudge == "Check what your function returns vs what the spec expects"
BaselineQuestions == <<"What is each item inside your callback", "What condition should be true for an adult", "Are you returning the filtered array?">>

\* nudge, questions and microExample of each tier's branches for loop-001
RuleContent(tier, rule) ==
  CASE tier = 1 /\ rule = "comparingObjectToNumber" ->
         [nudge |-> "Your filter predicate is comparing an object to a number",
          questions |-> <<"Inside filter, what is user", "Which property holds the age value?">>,
          microExample |-> NULL]
    [] tier = 1 /\ rule = "boundary18" ->
         [nudge |-> "This looks like a boundary case",
          questions |-> <<"Are you using > or >= in your condition?">>,
          microExample |-> NULL]
    [] tier = 1 /\ rule = "missingReturn" ->
         [nudge |-> "Make sure your function returns the filtered array.",
          questions |-> <<"What does your function return right now?">>,
          microExample |-> NULL]
    [] tier = 2 /\ rule = "comparingObjectToNumber" ->
         [nudge |-> "Compare the age property.",
          questions |-> <<"What is the shape of a user object", "Which expression should your predicate evaluate", "If you log user inside the callback">>,
          microExample |-> NULL]
    [] tier = 2 /\ rule = "boundary18" ->
         [nudge |-> "Your predicate is probably excluding 18.",
          questions |-> <<"If age is 18, should the predicate return true", "Which operator includes 18", "Try a tiny mental test">>,
          microExample |-> NULL]
    [] tier = 2 /\ rule = "missingReturn" ->
         [nudge |-> "You may be filtering correctly, but not returning the result",
          questions |-> <<"Are you returning the result of users.filter", "What value does your function return on the first test?", "Does your function ever return undefined?">>,
          microExample |-> NULL]
    [] tier = 3 /\ rule = "comparingObjectToNumber" ->
         [nudge |-> "Fix the predicate shape",
          questions |-> <<"Which property should the predicate read?", "Does the predicate return a boolean?", "Does your output contain the original user objects">>,
          microExample |-> Some("Micro-example (predicate only)")]
    [] tier = 3 /\ rule = "boundary18" ->
         [nudge |-> "Make sure 18 is included.",
          questions |-> <<"What is the exact condition from the spec?", "Which operator matches that condition?">>,
          microExample |-> Some("Micro-example (comparison only)")]
    [] tier = 3 /\ rule = "missingReturn" ->
         [nudge |-> "Return the filtered array from your function.",
          questions |-> <<"Where does your function return the filtered result?", "If you add console.log">>,
          microExample |-> Some("Micro-example (return shape only)")]
    [] tier = 3 /\ rule = "none" ->
         [nudge |-> "Focus on the predicate and boundary.",
          questions |-> <<"Does your predicate keep users with age 18?", "Are you reading user.age", "Are you returning the filtered array?">>,
          microExample |-> Some("Micro-example (debug step)")]
    [] OTHER ->
         [nudge |-> BaselineNudge, questions |-> BaselineQuestions, microExample |-> NULL]

\* slice that keeps every question
Slice_All(s, n) == s
\* questions.slice(0, maxQuestions)
Slice(s, n) == SubSeq(s, 1, Min(Len(s), n))

\* args: [loop, code, failingTests, tier], tier NULL when the caller gives none
gradeWithRules(args) ==
  LET tier == clampTier(args.tier)
      fails == FilterFail(args.failingTests)
      failText == textFromFails(fails)
      specific == args.loop.id = "loop-001"
      content == IF specific
                 THEN RuleContent(tier, MatchedRule(args.code, failText))
                 ELSE [nudge |-> BaselineNudge, questions |-> BaselineQuestions,
                       microExample |-> NULL]
      doc == IF specific THEN FilterDoc(args.loop, firstDoc(args.loop))
             ELSE firstDoc(args.loop)
      maxQuestions == IF tier = 1 THEN 2 ELSE 3
      final == [tier |-> tier,
                nudge |-> content.nudge,
                questions |-> Slice(content.questions, maxQuestions),
                doc |-> doc,
                safety |-> [no_full_solution |-> TRUE, notes |-> "rules-engine:tiered"]]
  IN IF tier = 3 /\ content.microExample # NULL
     THEN [f \in DOMAIN final \cup {"microExample"} |->
             IF f = "microExample" THEN content.microExample[1] ELSE final[f]]
     ELSE final

\* -------------------------------------------------------- grade endpoint
\* POST /api/grade on a parsed body [loopId, code, failingTests, tier].
\* The handler destructures loopId, code and failingTests only.  readable:
\* whether readFile of the exercise's loop.json succeeds.
gradePOST(body, readable) ==
  IF body.loopId = "" THEN
    [status |-> 400, body |-> [error |-> "loopId is required"]]
  ELSE IF body.code = "" THEN
    [status |-> 400, body |-> [error |-> "code is required"]]
  ELSE IF body.loopId \notin Loops \/ ~readable THEN
    [status |-> 404, body |-> [error |-> "Loop not found"]]
  ELSE
    [status |-> 200,
     body |-> gradeWithRules([loop |-> LoopJson(body.loopId),
                              code |-> body.code,
                              failingTests |-> body.failingTests,
                              tier |-> NULL])]

\* Response.ok
ResOk(res) == 200 <= res.status /\ res.status <= 299

\* ----------------------------------------------------------- run endpoint
\* POST /api/run as the editor sees it: the verdict is the exit code of the
\* sandbox, the tests are the normalized report; the two are read separately.
\* readable: whether readFile of the exercise's tests.spec.ts succeeds.
runPOST(body, readable, exitCode, testsUi) ==
  IF body.loopId = "" THEN
    [status |-> 400, body |-> [error |-> "loopId is required"]]
  ELSE IF body.code = "" THEN
    [status |-> 400, body |-> [error |-> "code is required"]]
  ELSE IF body.loopId \notin Loops \/ ~readable THEN
    [status |-> 404, body |-> [error |-> "Loop tests not found"]]
  ELSE
    [status |-> 200, body |-> [passed |-> (exitCode = 0), tests |-> testsUi]]

\* ------------------------------------------------------------ the editor
VARIABLES
  loopId,        \* prop: the exercise shown
  code,          \* useState(initialCode)
  running,       \* useState(false)
  result,        \* useState(null): NULL or Some(RunResponse)
  runError,      \* useState(null)
  coach,         \* useState(null): NULL or Some(CoachResponse)
  coachLoading,  \* useState(false)
  coachError,    \* useState(null)
  hintsLeft,     \* useState(hintBudget)
  tierUsed,      \* useState(0)
  localStorage,  \* window.localStorage: key -> characters
  runReqs,       \* fetch('/api/run') calls awaiting their continuation
  hintReqs,      \* fetch('/api/grade') calls awaiting their continuation (a bag)
  refused,       \* history: the last step was a reveal attempt that was refused
  sinceReset     \* history: a reset has run on the exercise shown and no hint
                 \* request has been issued since

\* the server: the invocations of the run handler and the temporary
\* directories of the host
VARIABLES
  calls,         \* invocation -> its position in POST and its local variables
  tmpdir         \* name of a directory under os.tmpdir() -> its files

\* a pure function under check: its argument and, once applied, its value
VARIABLES
  input,
  output

editorVars == <<loopId, code, running, result, runError, coach, coachLoading,
                coachError, hintsLeft, tierUsed, localStorage, runReqs, hintReqs,
                refused, sinceReset>>
serverVars == <<calls, tmpdir>>
pureVars == <<input, output>>

vars == <<loopId, code, running, result, runError, coach, coachLoading,
          coachError, hintsLeft, tierUsed, localStorage, runReqs, hintReqs, refused,
          sinceReset, calls, tmpdir, input, output>>

\* no invocation of the run handler, no temporary directory
ServerIdle == calls = <<>> /\ tmpdir = <<>>
\* no function under check
PureIdle == input = NULL /\ output = NULL

hintsKey(l) == "tryloop:hintsLeft:" \o l
tierKey(l) == "tryloop:hintTierUsed:" \o l

getItem(store, k) == IF k \in DOMAIN store THEN Some(store[k]) ELSE NULL
setItem(store, k, v) == [x \in DOMAIN store \cup {k} |-> IF x = k THEN v ELSE store[x]]

\* props of the render
hintBudget == LoopJson(loopId).hintBudget
initialCode == LoopJson(loopId).starter
isDev == TRUE

\* values computed by the render
maxTier == Min(3, hintBudget)
nextTier == Min(maxTier, tierUsed + 1)
tests == IF result = NULL THEN <<>> ELSE result[1].tests
failingTests == FilterFail(tests)
showCoachControls ==
  hintBudget > 0 /\ result # NULL /\ ~result[1].passed /\ Len(failingTests) > 0
resetHintDisabled == coachLoading \/ (hintsLeft = hintBudget /\ tierUsed = 0)
hintDisabled ==
  coachLoading \/ hintsLeft <= 0 \/ tierUsed >= maxTier \/ ~showCoachControls

\* isCoachResponse without its test of tier
isCoachResponse_NoTierTest(x) ==
  /\ x # NULL
  /\ "nudge" \in DOMAIN x
  /\ "questions" \in DOMAIN x
  /\ "doc" \in DOMAIN x /\ "label" \in DOMAIN x.doc /\ "url" \in DOMAIN x.doc
  /\ "safety" \in DOMAIN x
  /\ "no_full_solution" \in DOMAIN x.safety /\ x.safety.no_full_solution = TRUE

\* A JSON body is NULL or a record; a field is typed as the engine types it
\* when it is present, so each typeof test is a test of presence.
isCoachResponse(x) ==
  /\ x # NULL
  /\ "tier" \in DOMAIN x /\ x.tier \in {1, 2, 3}
  /\ "nudge" \in DOMAIN x
  /\ "questions" \in DOMAIN x
  /\ "doc" \in DOMAIN x /\ "label" \in DOMAIN x.doc /\ "url" \in DOMAIN x.doc
  /\ "safety" \in DOMAIN x
  /\ "no_full_solution" \in DOMAIN x.safety /\ x.safety.no_full_solution = TRUE

\* the two persist effects, run for the values of a render
PersistTokens(store, l, h) == setItem(store, hintsKey(l), JsString(h))
PersistTier(store, l, t) == setItem(store, tierKey(l), JsString(t))

\* the persist effects after a render in which hintsLeft / tierUsed may have
\* changed and loopId has not
PersistChanged(store, h, t) ==
  LET s1 == IF h # hintsLeft THEN PersistTokens(store, loopId, h) ELSE store
  IN IF t # tierUsed THEN PersistTier(s1, loopId, t) ELSE s1

\* "Load tokens" and "Load tier" of the sync effect
LoadTokens(store, l) ==
  LET hk == getItem(store, hintsKey(l))
  IN IF hk # NULL
     THEN LET n == JsNumber(hk[1])
          IN IF n.finite THEN n.n ELSE LoopJson(l).hintBudget
     ELSE LoopJson(l).hintBudget

LoadTier(store, l) ==
  LET tk == getItem(store, tierKey(l))
  IN IF tk # NULL
     THEN LET n == JsNumber(tk[1])
          IN IF n.finite THEN Max(0, Min(3, n.n)) ELSE 0
     ELSE 0

\* the normalized reports a run may come back with
TestPass == [name |-> NameOnly, state |-> "pass"]
TestFail == [name |-> NameExactly, state |-> "fail"]
Reports == {<<>>, <<TestPass>>, <<TestPass, TestFail>>}


\* The first mount of the editor on an exercise, its effects run: the sync
\* effect finds no stored value, the persist effects store the initial ones.
EditorInit ==
  /\ loopId \in Loops
  /\ code = initialCode
  /\ running = FALSE
  /\ result = NULL
  /\ runError = NULL
  /\ coach = NULL
  /\ coachLoading = FALSE
  /\ coachError = NULL
  /\ hintsLeft = hintBudget
  /\ tierUsed = 0
  /\ localStorage = PersistTier(PersistTokens(<<>>, loopId, hintBudget), loopId, 0)
  /\ runReqs = {}
  /\ hintReqs = EmptyBag
  /\ refused = FALSE
  /\ sinceReset = FALSE

\* the editor mounted, the server idle
Init == EditorInit /\ ServerIdle /\ PureIdle

\* history: a new run has started, so what came from an earlier run is stale
MarkStale(r) == [r EXCEPT !.stale = TRUE]
CountIn(B, r) == IF r \in DOMAIN B THEN B[r] ELSE 0
MarkAllStale(B) ==
  [r \in {MarkStale(q) : q \in DOMAIN B} |->
     CountIn(B, r) + CountIn(B, [r EXCEPT !.stale = FALSE])]

\* handleRunTests, were it to refund the tokens of the exercise
handleRunTests_Refund ==
  /\ ~running
  /\ running' = TRUE
  /\ runError' = NULL
  /\ coach' = NULL
  /\ coachError' = NULL
  /\ coachLoading' = FALSE
  /\ runReqs' = runReqs \cup {[loopId |-> loopId, code |-> code]}
  /\ result' = IF result = NULL THEN NULL ELSE Some(MarkStale(result[1]))
  /\ hintReqs' = MarkAllStale(hintReqs)
  /\ refused' = FALSE
  /\ hintsLeft' = hintBudget
  /\ localStorage' = PersistChanged(localStorage, hintBudget, tierUsed)
  /\ UNCHANGED <<loopId, code, tierUsed, sinceReset>>
  /\ UNCHANGED <<serverVars, pureVars>>

\* handleRunTests up to its await; the button is disabled while running
handleRunTests ==
  /\ ~running
  /\ running' = TRUE
  /\ runError' = NULL
  /\ coach' = NULL
  /\ coachError' = NULL
  /\ coachLoading' = FALSE
  /\ runReqs' = runReqs \cup {[loopId |-> loopId, code |-> code]}
  /\ result' = IF result = NULL THEN NULL ELSE Some(MarkStale(result[1]))
  /\ hintReqs' = MarkAllStale(hintReqs)
  /\ refused' = FALSE
  /\ UNCHANGED <<loopId, code, hintsLeft, tierUsed, localStorage, sinceReset>>
  /\ UNCHANGED <<serverVars, pureVars>>

\* handleRunTests from its await on: the reply of the run endpoint, or a
\* throw of fetch / res.json() (thrown = TRUE)
RunContinuation(req, thrown, res) ==
  /\ runReqs' = runReqs \ {req}
  /\ IF thrown THEN
       /\ result' = NULL
       /\ runError' = Some("[TryLoop] Failed to run tests")
     ELSE IF ~ResOk(res) THEN
       /\ result' = NULL
       /\ runError' = Some(res.body.error)
     ELSE
       /\ result' = Some([passed |-> res.body.passed, tests |-> res.body.tests,
                          loopId |-> req.loopId, stale |-> FALSE])
       /\ UNCHANGED runError
  /\ running' = FALSE
  /\ refused' = FALSE
  /\ UNCHANGED <<loopId, code, coach, coachLoading, coachError, hintsLeft, tierUsed,
                 localStorage, hintReqs, sinceReset>>
  /\ UNCHANGED <<serverVars, pureVars>>

\* What fetch('/api/run') may resolve to: the reply of the run endpoint for
\* each outcome of readFile, exit code of the sandbox and report
RunReplies(req) ==
  {runPOST(req, readable, exitCode, report) :
     readable \in BOOLEAN, exitCode \in {0, 1}, report \in Reports}

RunResponse ==
  \E req \in runReqs :
    \E thrown \in BOOLEAN, res \in RunReplies(req) :
      RunContinuation(req, thrown, res)

\* the guards of handleGetHint without the test of hintsLeft
HintGuards_NoTokenTest ==
  /\ showCoachControls
  /\ result # NULL /\ ~result[1].passed
  /\ Len(failingTests) > 0
  /\ tierUsed < maxTier

\* the guards that open handleGetHint
HintGuards ==
  /\ showCoachControls
  /\ result # NULL /\ ~result[1].passed
  /\ Len(failingTests) > 0
  /\ hintsLeft > 0
  /\ tierUsed < maxTier

\* handleGetHint, were it to clear the coach output before its guards
handleGetHint_ClearsFirst ==
  /\ ~coachLoading
  /\ coach' = NULL
  /\ coachError' = NULL
  /\ IF HintGuards THEN
       /\ BagCardinality(hintReqs) < MaxInFlight
       /\ coachLoading' = TRUE
       /\ hintReqs' = hintReqs (+) SetToBag({[loopId |-> loopId, code |-> code,
                                               failingTests |-> failingTests,
                                               tier |-> nextTier,
                                               stale |-> result[1].stale]})
       /\ refused' = FALSE
       /\ sinceReset' = FALSE
     ELSE
       /\ refused' = TRUE
       /\ UNCHANGED <<coachLoading, hintReqs, sinceReset>>
  /\ UNCHANGED <<loopId, code, running, result, runError, hintsLeft, tierUsed,
                 localStorage, runReqs>>
  /\ UNCHANGED <<serverVars, pureVars>>

\* handleGetHint up to its await.  The button is clickable iff ~hintDisabled;
\* the handler repeats every condition of hintDisabled but coachLoading, so
\* it is also run where one of those hides or disables the button: a reveal
\* attempt it refuses.
handleGetHint ==
  /\ ~coachLoading
  /\ IF HintGuards THEN
       /\ BagCardinality(hintReqs) < MaxInFlight
       /\ coachLoading' = TRUE
       /\ coach' = NULL
       /\ coachError' = NULL
       /\ hintReqs' = hintReqs (+) SetToBag({[loopId |-> loopId, code |-> code,
                                               failingTests |-> failingTests,
                                               tier |-> nextTier,
                                               stale |-> result[1].stale]})
       /\ refused' = FALSE
       /\ sinceReset' = FALSE
     ELSE
       /\ refused' = TRUE
       /\ UNCHANGED <<coachLoading, coach, coachError, hintReqs, sinceReset>>
  /\ UNCHANGED <<loopId, code, running, result, runError, hintsLeft, tierUsed,
                 localStorage, runReqs>>
  /\ UNCHANGED <<serverVars, pureVars>>

\* The success branch of handleGetHint: the state after setCoach,
\* setTierUsed(nextTier) of the closure and setHintsLeft(h => max(0, h - 1)).
RevealedTier(req) == req.tier
\* the success branch without the spend
RevealedTokens_NoSpend(req) == hintsLeft
RevealedTokens(req) == Max(0, hintsLeft - 1)

\* handleGetHint from its await on, for the request req: the reply of the
\* grade endpoint, or a throw of fetch / gradeRes.json() (thrown = TRUE)
HintContinuation(req, thrown, res) ==
  /\ hintReqs' = hintReqs (-) SetToBag({req})
  /\ IF thrown THEN
       /\ coach' = NULL
       /\ coachError' = Some("Coach mode failed")
       /\ UNCHANGED <<tierUsed, hintsLeft, localStorage>>
     ELSE IF ~ResOk(res) THEN
       /\ coach' = NULL
       /\ coachError' = Some(res.body.error)
       /\ UNCHANGED <<tierUsed, hintsLeft, localStorage>>
     ELSE IF ~isCoachResponse(res.body) THEN
       /\ coach' = NULL
       /\ coachError' = Some("Coach response was not in the expected format.")
       /\ UNCHANGED <<tierUsed, hintsLeft, localStorage>>
     ELSE
       /\ coach' = Some(res.body)
       /\ tierUsed' = RevealedTier(req)
       /\ hintsLeft' = RevealedTokens(req)
       /\ localStorage' = PersistChanged(localStorage, hintsLeft', tierUsed')
       /\ UNCHANGED coachError
  /\ coachLoading' = FALSE
  /\ refused' = FALSE
  /\ UNCHANGED <<loopId, code, running, result, runError, runReqs, sinceReset>>
  /\ UNCHANGED <<serverVars, pureVars>>

\* the default body of the untiered rules engine, which carries no tier
UntieredBody(req) ==
  [nudge |-> "Use the failing test output to compare what your function returns vs what the spec expects.",
   questions |-> <<"What shape is each item", "What should your predicate/condition return for the boundary case?", "What do you return from the function?">>,
   doc |-> firstDoc(LoopJson(req.loopId)),
   safety |-> [no_full_solution |-> TRUE, notes |-> "rules-engine"]]

\* What fetch('/api/grade') may resolve to: the reply of the grade endpoint,
\* or an OK reply with another body.
GradeReplies(req) ==
  {gradePOST(req, TRUE), gradePOST(req, FALSE),
   [status |-> 200, body |-> UntieredBody(req)],
   [status |-> 200, body |-> NULL]}

HintResponse ==
  \E req \in BagToSet(hintReqs) :
    \E thrown \in BOOLEAN, res \in GradeReplies(req) :
      HintContinuation(req, thrown, res)

\* handleResetHintsDev; the button is rendered in the coach panel of a
\* development build
handleResetHintsDev ==
  /\ isDev /\ showCoachControls /\ ~resetHintDisabled
  /\ hintsLeft' = hintBudget
  /\ tierUsed' = 0
  /\ coach' = NULL
  /\ coachError' = NULL
  /\ localStorage' = PersistChanged(PersistTier(PersistTokens(localStorage, loopId, hintBudget), loopId, 0),
                                    hintBudget, 0)
  /\ refused' = FALSE
  /\ sinceReset' = TRUE
  /\ UNCHANGED <<loopId, code, running, result, runError, coachLoading, runReqs, hintReqs>>
  /\ UNCHANGED <<serverVars, pureVars>>

\* Navigation to another exercise: the props change on the mounted editor.
\* The render with the new loopId runs the sync effect and both persist
\* effects (loopId is a dependency of each) with the state of that render;
\* the render that follows runs the persist effects whose value changed.
Navigate(l) ==
  LET h == LoadTokens(localStorage, l)
      t == LoadTier(localStorage, l)
      first == PersistTier(PersistTokens(localStorage, l, hintsLeft), l, tierUsed)
      second == IF h # hintsLeft THEN PersistTokens(first, l, h) ELSE first
      third == IF t # tierUsed THEN PersistTier(second, l, t) ELSE second
  IN /\ l # loopId
     /\ loopId' = l
     /\ code' = LoopJson(l).starter
     /\ result' = NULL
     /\ runError' = NULL
     /\ coach' = NULL
     /\ coachError' = NULL
     /\ coachLoading' = FALSE
     /\ hintsLeft' = h
     /\ tierUsed' = t
     /\ localStorage' = third
     /\ refused' = FALSE
     /\ sinceReset' = FALSE
     /\ UNCHANGED <<running, runReqs, hintReqs>>
     /\ UNCHANGED <<serverVars, pureVars>>

Next ==
  \/ handleRunTests
  \/ RunResponse
  \/ handleGetHint
  \/ HintResponse
  \/ handleResetHintsDev
  \/ \E l \in Loops : Navigate(l)

Spec == Init /\ [][Next]_vars

\* ------------------------------------------------ reveals made in sequence
\* The editor stays on loop-001 (budget 3); the learner asks for a hint only
\* when no hint request is awaiting its reply, and never resets.
InitSeq == Init /\ loopId = "loop-001"

NextSeq ==
  \/ handleRunTests
  \/ RunResponse
  \/ hintReqs = EmptyBag /\ handleGetHint
  \/ HintResponse

SpecSeq == InitSeq /\ [][NextSeq]_vars

\* ------------------------------------------------------ report normalizer
\* JSON values of a report.  An object is a record whose fields are those
\* present with a value other than null; an array is a sequence; a state is
\* Str(characters) or Num(n); names and messages are text that is never
\* converted and stay strings.  What an expression may leave undefined is an
\* optional: NULL or Some(value).
Str(chars) == [str |-> chars]
Num(n) == [num |-> n]

Upper == <<"A", "B", "C", "D", "E", "F", "G", "H", "I", "J", "K", "L", "M",
           "N", "O", "P", "Q", "R", "S", "T", "U", "V", "W", "X", "Y", "Z">>
Lower == <<"a", "b", "c", "d", "e", "f", "g", "h", "i", "j", "k", "l", "m",
           "n", "o", "p", "q", "r", "s", "t", "u", "v", "w", "x", "y", "z">>

\* String(x ?? '') of an optional state
StringOf(x) ==
  IF x = NULL THEN <<>>
  ELSE IF "str" \in DOMAIN x[1] THEN x[1].str
  ELSE JsString(x[1].num)

\* c.toLowerCase() of one character
LowerChar(c) ==
  IF \E i \in DOMAIN Upper : Upper[i] = c
  THEN Lower[CHOOSE i \in DOMAIN Upper : Upper[i] = c]
  ELSE c
\* toLowerCase that lowers nothing
LowerCase_Identity(chars) == chars
LowerCase(chars) == [i \in 1..Len(chars) |-> LowerChar(chars[i])]

StrPass == <<"p", "a", "s", "s">>
StrPassed == <<"p", "a", "s", "s", "e", "d">>
StrFail == <<"f", "a", "i", "l">>
StrFailed == <<"f", "a", "i", "l", "e", "d">>
StrSkip == <<"s", "k", "i", "p">>
StrSkipped == <<"s", "k", "i", "p", "p", "e", "d">>
StrTodo == <<"t", "o", "d", "o">>

toUiState(x) ==
  LET v == LowerCase(StringOf(x))
  IN IF v = StrPass \/ v = StrPassed THEN "pass"
     ELSE IF v = StrFail \/ v = StrFailed THEN "fail"
     ELSE IF v = StrSkip \/ v = StrSkipped THEN "skip"
     ELSE IF v = StrTodo THEN "todo"
     ELSE "unknown"

\* o?.f of an optional object o
Get(o, f) == IF o # NULL /\ f \in DOMAIN o[1] THEN Some(o[1][f]) ELSE NULL
\* a ?? b of optionals
Coalesce(a, b) == IF a # NULL THEN a ELSE b
\* the record r with the field k when the optional v is present
WithOpt(r, k, v) ==
  IF v = NULL THEN r
  ELSE [x \in DOMAIN r \cup {k} |-> IF x = k THEN v[1] ELSE r[x]]

\* msgs.join(sep)
RECURSIVE Join(_, _)
Join(msgs, sep) ==
  IF Len(msgs) = 0 THEN ""
  ELSE IF Len(msgs) = 1 THEN msgs[1]
  ELSE msgs[1] \o sep \o Join(Tail(msgs), sep)

\* the concatenation of a sequence of sequences
RECURSIVE Flatten(_)
Flatten(ss) == IF Len(ss) = 0 THEN <<>> ELSE ss[1] \o Flatten(Tail(ss))

\* Shape A: the record pushed for the assertion a of the file named fileName
AssertionRecord(a, fileName) ==
  LET state == Coalesce(Get(Some(a), "state"), Get(Some(a), "status"))
      name == Coalesce(Get(Some(a), "fullName"),
                       Coalesce(Get(Some(a), "title"), Some("Unnamed test")))
      msgs == Get(Some(a), "failureMessages")
      joined == IF msgs = NULL THEN "" ELSE Join(msgs[1], "\n")
  IN WithOpt(WithOpt([name |-> name[1], state |-> toUiState(state)],
                     "file", fileName),
             "error", IF joined = "" THEN NULL ELSE Some(joined))

\* Shape B: the error of the test node
NodeError(node) ==
  LET res == Get(Some(node), "result")
      message == Get(Get(res, "error"), "message")
      errors == Get(res, "errors")
  IN IF message # NULL /\ message # Some("") THEN message
     ELSE IF errors # NULL
          THEN LET ms == [i \in 1..Len(errors[1]) |->
                            Coalesce(Get(Some(errors[1][i]), "message"), Some(""))[1]]
               IN Some(Join(SelectSeq(ms, LAMBDA m : m # ""), "\n"))
          ELSE NULL

\* Shape B: the record pushed for the test node
NodeRecord(node, fileName) ==
  LET state == Coalesce(Get(Get(Some(node), "result"), "state"), Get(Some(node), "state"))
  IN WithOpt(WithOpt([name |-> Coalesce(Get(Some(node), "name"), Some("Unnamed test"))[1],
                      state |-> toUiState(state)],
                     "file", fileName),
             "error", NodeError(node))

\* walk that does not descend into node.tasks
walk_NoDescent(node, fileName) ==
  IF node = NULL THEN <<>>
  ELSE IF Get(Some(node), "type") = Some("test") THEN <<NodeRecord(node, fileName)>>
  ELSE <<>>

\* Shape B: what walk(node) pushes, in order
RECURSIVE walk(_, _)
walk(node, fileName) ==
  IF node = NULL THEN <<>>
  ELSE (IF Get(Some(node), "type") = Some("test")
        THEN <<NodeRecord(node, fileName)>> ELSE <<>>)
       \o (IF "tasks" \in DOMAIN node
           THEN Flatten([i \in 1..Len(node.tasks) |-> walk(node.tasks[i], fileName)])
           ELSE <<>>)

\* report: NULL when the report file is missing or is no JSON
normalizeVitestReport(report) ==
  IF report = NULL THEN <<>>
  ELSE IF "testResults" \in DOMAIN report[1] THEN
    Flatten([i \in 1..Len(report[1].testResults) |->
      LET file == report[1].testResults[i]
          assertions == Coalesce(Get(Some(file), "assertionResults"), Some(<<>>))[1]
      IN [j \in 1..Len(assertions) |->
            AssertionRecord(assertions[j], Get(Some(file), "name"))]])
  ELSE IF "files" \in DOMAIN report[1] THEN
    Flatten([i \in 1..Len(report[1].files) |->
      LET f == report[1].files[i]
          roots == Coalesce(Get(Some(f), "tasks"), Some(<<>>))[1]
      IN Flatten([j \in 1..Len(roots) |-> walk(roots[j], Get(Some(f), "name"))])])
  ELSE <<>>

\* ------------------------------------------- the normalizer on its inputs
\* length of the lists of a report, and depth of the suites of a task tree
MaxItems == 2
MaxDepth == 2

SeqsUpTo(S, n) == UNION {[1..k -> S] : k \in 0..n}

\* values found in a state or status field, and a missing one (NULL)
StateValues ==
  {NULL} \cup
  {Some(Str(w)) : w \in
     {StrPass, StrPassed, StrFail, StrFailed, StrSkip, StrSkipped, StrTodo,
      <<"P", "A", "S", "S">>, <<"P", "a", "s", "s", "e", "d">>,
      <<"F", "A", "I", "L", "E", "D">>, <<"F", "a", "i", "l">>,
      <<"f", "a", "I", "l">>, <<"S", "K", "I", "P">>,
      <<"S", "k", "i", "p", "p", "e", "d">>, <<"T", "O", "D", "O">>,
      <<"T", "o", "d", "o">>,
      <<>>, <<"r", "u", "n">>, <<"p", "e", "n", "d", "i", "n", "g">>,
      <<"p", "a", "s">>, <<"p", "a", "s", "s", "e", "s">>,
      <<" ", "p", "a", "s", "s">>, <<"f", "a", "i", "l", "s">>,
      <<"u", "n", "k", "n", "o", "w", "n">>, <<"o", "n", "l", "y">>}} \cup
  {Some(Num(0)), Some(Num(1))}

\* Shape A: assertions as the reporter writes them, and ones with fields
\* missing
AssertionsA ==
  {[fullName |-> "filterAdults returns only users with age >= 18",
    title |-> NameOnly, status |-> Str(StrPassed)],
   [title |-> NameExactly, status |-> Str(<<"F", "A", "I", "L", "E", "D">>),
    failureMessages |-> <<"expected [] to deeply equal [ 18 ]", "at tests.spec.ts:13">>],
   [title |-> NameEmpty, state |-> Str(StrSkip), status |-> Str(StrPassed)],
   [title |-> "does not mutate the input array", status |-> Str(<<"p", "e", "n", "d", "i", "n", "g">>),
    failureMessages |-> <<>>],
   [status |-> Num(1)],
   [fullName |-> "filterAdults todo", status |-> Str(StrTodo)]}

FilesA ==
  {[name |-> "/work/tests.spec.ts",
    assertionResults |-> <<[title |-> NameOnly, status |-> Str(StrPassed)]>>],
   [name |-> "/work/other.spec.ts",
    assertionResults |-> <<[title |-> NameExactly, status |-> Str(StrFailed)],
                           [title |-> NameEmpty, status |-> Str(StrPassed)]>>],
   [name |-> "/work/empty.spec.ts", assertionResults |-> <<>>],
   [assertionResults |-> <<[title |-> NameOnly, state |-> Str(StrFail)]>>]}

ReportsA ==
  {[testResults |-> <<[name |-> "/work/tests.spec.ts", assertionResults |-> as]>>] :
     as \in SeqsUpTo(AssertionsA, MaxItems)}
  \cup {[testResults |-> fs] : fs \in SeqsUpTo(FilesA, MaxItems)}

\* Shape B: test nodes as the runner writes them, and ones with fields missing
TestPassing == [type |-> "test", name |-> NameOnly, result |-> [state |-> Str(StrPass)]]
TestFailing ==
  [type |-> "test", name |-> NameExactly,
   result |-> [state |-> Str(StrFail), error |-> [message |-> "expected [] to deeply equal [ 18 ]"]]]
TestNodesB ==
  {TestPassing, TestFailing,
   [type |-> "test", name |-> NameEmpty, state |-> Str(<<"S", "k", "i", "p", "p", "e", "d">>)],
   [type |-> "test", name |-> "does not mutate the input array", state |-> Str(StrFailed),
    result |-> [errors |-> <<[message |-> "first"], [message |-> "second"]>>]],
   [type |-> "test"],
   [type |-> "test", name |-> NameOnly, result |-> [state |-> Str(<<"r", "u", "n">>)]],
   [type |-> "test", name |-> "todo", state |-> Str(StrTodo), result |-> [errors |-> <<>>]]}

Suite(tasks) == [type |-> "suite", name |-> "filterAdults", tasks |-> tasks]

\* task lists with suites nested up to depth d: some tests, then possibly a
\* suite of the next depth
RECURSIVE TaskLists(_)
TaskLists(d) ==
  LET flat == SeqsUpTo({TestPassing, TestFailing}, MaxItems)
  IN IF d = 0 THEN flat
     ELSE flat \cup {ls \o <<Suite(sub)>> : ls \in flat, sub \in TaskLists(d - 1)}

FilesB ==
  {[name |-> "/work/tests.spec.ts", tasks |-> <<Suite(<<TestPassing, TestFailing>>)>>],
   [name |-> "/work/other.spec.ts", tasks |-> <<TestFailing>>],
   [name |-> "/work/empty.spec.ts"],
   [tasks |-> <<TestPassing>>]}

ReportsB ==
  {[files |-> <<[name |-> "/work/tests.spec.ts", tasks |-> ts]>>] :
     ts \in TaskLists(MaxDepth) \cup SeqsUpTo(TestNodesB, MaxItems)}
  \cup {[files |-> fs] : fs \in SeqsUpTo(FilesB, MaxItems)}

\* the applications checked: a function of the normalizer and its argument
PureInputs ==
  {[fn |-> "toUiState", arg |-> v] : v \in StateValues}
  \cup {[fn |-> "normalizeVitestReport", arg |-> Some(r)] : r \in ReportsA \cup ReportsB}

InitPure ==
  /\ EditorInit /\ loopId = "loop-001"
  /\ ServerIdle
  /\ input \in PureInputs
  /\ output = NULL

ApplyToUiState ==
  /\ input.fn = "toUiState" /\ output = NULL
  /\ output' = Some(toUiState(input.arg))
  /\ UNCHANGED <<editorVars, serverVars, input>>

ApplyNormalize ==
  /\ input.fn = "normalizeVitestReport" /\ output = NULL
  /\ output' = Some(normalizeVitestReport(input.arg))
  /\ UNCHANGED <<editorVars, serverVars, input>>

NextPure == ApplyToUiState \/ ApplyNormalize

SpecPure == InitPure /\ [][NextPure]_vars

\* ------------------------------------------------------- the run handler
\* POST /api/run, one step per await.  Node runs the code between two awaits
\* without interruption; invocations interleave at their awaits, and the
\* events of a child process (data, exit, close) and its timer arrive in any
\* order the runtime allows.

\* invocations of the handler
MaxCalls == 2

\* a field of a JSON body
JStr(v) == [t |-> "string", s |-> v]
JNum(n) == [t |-> "number", n |-> n]

\* request bodies: text that is no JSON, the JSON null, and objects
BodyNotJson == [json |-> FALSE]
BodyNull == [json |-> TRUE, value |-> NULL]
Body(fields) == [json |-> TRUE, value |-> Some(fields)]
Bodies ==
  {BodyNotJson, BodyNull,
   Body([code |-> JStr(Starter)]),
   Body([loopId |-> JNum(1), code |-> JStr(Starter)]),
   Body([loopId |-> JStr(""), code |-> JStr(Starter)]),
   Body([loopId |-> JStr("loop-001")]),
   Body([loopId |-> JStr("loop-001"), code |-> JStr("")]),
   Body([loopId |-> JStr("loop-404"), code |-> JStr(Starter)]),
   Body([loopId |-> JStr("loop-001"), code |-> JStr(Starter)])}

\* !v || typeof v !== 'string' of an optional field
NotAString(v) == v = NULL \/ v[1].t # "string" \/ v[1].s = ""

\* readFile(loops/<loopId>/tests.spec.ts) succeeds
TestsReadable(l) == l \in Loops

Response(status, body) == [kind |-> "response", status |-> status, body |-> body]
\* an exception that leaves the handler, thrown by the step named
Fault(at) == [kind |-> "fault", at |-> at]

TimeoutMarker == "\n[TryLoop] Timeout after 8000ms"

\* the artifacts written into the workspace, in order
Artifacts == <<"user-code.ts", "tests.spec.ts", "vitest.config.ts", "package.json">>

\* report.json as the run leaves it: missing, no JSON, or a report
ReportFailing ==
  [testResults |-> <<[name |-> "/work/tests.spec.ts",
                      assertionResults |-> <<[title |-> NameOnly, status |-> Str(StrPassed)],
                                             [title |-> NameExactly, status |-> Str(StrFailed),
                                              failureMessages |-> <<"expected [] to deeply equal [ 18 ]">>]>>]>>]
Corrupt == [json |-> FALSE]
ReportFiles ==
  {NULL, Some(Corrupt), Some([json |-> TRUE, value |-> ReportFailing])}

\* a fixed name in place of mkdtemp's
NewDir_Fixed(i) == <<"tryloop-", 0>>
\* the name mkdtemp gives: the prefix and a suffix no other directory has,
\* here the number of the invocation
NewDir(i) == <<"tryloop-", i>>

\* the local variables of an invocation that has just received its request
NewCall(body) ==
  [pc |-> "start", body |-> body, dir |-> NULL, written |-> 0,
   phase |-> "none", code |-> NULL, timer |-> "off", killed |-> FALSE,
   spawned |-> FALSE, stdout |-> <<>>, stderr |-> <<>>,
   exitCode |-> NULL, reportFile |-> NULL, pending |-> NULL, outcome |-> NULL]

Done(c, outcome) == [c EXCEPT !.pc = "done", !.outcome = Some(outcome)]

\* lines 361-376: req.json(), the destructuring and the two validations
Validate(c) ==
  LET body == c.body
      loopIdV == Get(body.value, "loopId")
      codeV == Get(body.value, "code")
  IN IF ~body.json THEN Done(c, Response(400, [error |-> "Invalid JSON body"]))
     ELSE IF body.value = NULL THEN Done(c, Fault("destructuring"))
     ELSE IF NotAString(loopIdV) THEN Done(c, Response(400, [error |-> "loopId is required"]))
     ELSE IF NotAString(codeV) THEN Done(c, Response(400, [error |-> "code is required"]))
     ELSE [c EXCEPT !.pc = "readTests"]

Receive ==
  /\ Len(calls) < MaxCalls
  /\ \E body \in Bodies : calls' = Append(calls, Validate(NewCall(body)))
  /\ UNCHANGED <<tmpdir, editorVars, pureVars>>

\* lines 378-388: await readFile(testsPath)
ReadTests(i) ==
  /\ calls[i].pc = "readTests"
  /\ calls' = [calls EXCEPT ![i] =
       IF TestsReadable(calls[i].body.value[1].loopId.s)
       THEN [@ EXCEPT !.pc = "mkdtemp"]
       ELSE Done(@, Response(404,
              [error |-> "Loop tests not found for " \o calls[i].body.value[1].loopId.s]))]
  /\ UNCHANGED <<tmpdir, editorVars, pureVars>>

\* line 391: await mkdtemp(...), outside the try
Mkdtemp(i) ==
  /\ calls[i].pc = "mkdtemp"
  /\ \E ok \in BOOLEAN :
       IF ok THEN
         LET d == NewDir(i)
         IN /\ calls' = [calls EXCEPT ![i] = [@ EXCEPT !.pc = "write", !.dir = Some(d)]]
            /\ tmpdir' = IF d \in DOMAIN tmpdir THEN tmpdir
                         ELSE [x \in DOMAIN tmpdir \cup {d} |->
                                 IF x = d THEN [owner |-> i, files |-> <<>>, report |-> NULL]
                                 ELSE tmpdir[x]]
       ELSE
         /\ calls' = [calls EXCEPT ![i] = Done(@, Fault("mkdtemp"))]
         /\ UNCHANGED tmpdir
  /\ UNCHANGED <<editorVars, pureVars>>

\* what a file of the workspace holds
Content(c, name) ==
  IF name = "user-code.ts" THEN c.body.value[1].code.s
  ELSE IF name = "tests.spec.ts" THEN "tests of " \o c.body.value[1].loopId.s
  ELSE name

\* writeFile, were its failure to leave the handler without the cleanup
WriteFile_NoFinally(i) ==
  /\ calls[i].pc = "write"
  /\ \E ok \in BOOLEAN :
       LET c == calls[i]
           d == c.dir[1]
           name == Artifacts[c.written + 1]
       IN IF ok /\ d \in DOMAIN tmpdir THEN
            /\ tmpdir' = [tmpdir EXCEPT ![d].files =
                 [x \in DOMAIN @ \cup {name} |-> IF x = name THEN Content(c, name) ELSE @[x]]]
            /\ calls' = [calls EXCEPT ![i] =
                 [@ EXCEPT !.written = c.written + 1,
                           !.pc = IF c.written + 1 = Len(Artifacts) THEN "spawn" ELSE "write"]]
          ELSE
            /\ calls' = [calls EXCEPT ![i] = Done(@, Fault("writeFile"))]
            /\ UNCHANGED tmpdir
  /\ UNCHANGED <<editorVars, pureVars>>

\* lines 395-410: one await writeFile(...) of the try block; a throw goes to
\* the finally block
WriteFile(i) ==
  /\ calls[i].pc = "write"
  /\ \E ok \in BOOLEAN :
       LET c == calls[i]
           d == c.dir[1]
           name == Artifacts[c.written + 1]
       IN IF ok /\ d \in DOMAIN tmpdir THEN
            /\ tmpdir' = [tmpdir EXCEPT ![d].files =
                 [x \in DOMAIN @ \cup {name} |-> IF x = name THEN Content(c, name) ELSE @[x]]]
            /\ calls' = [calls EXCEPT ![i] =
                 [@ EXCEPT !.written = c.written + 1,
                           !.pc = IF c.written + 1 = Len(Artifacts) THEN "spawn" ELSE "write"]]
          ELSE
            /\ calls' = [calls EXCEPT ![i] =
                 [@ EXCEPT !.pc = "finally", !.pending = Some(Fault("writeFile"))]]
            /\ UNCHANGED tmpdir
  /\ UNCHANGED <<editorVars, pureVars>>

\* lines 339-347: spawn and setTimeout of runCmd.  When spawn fails the child
\* emits 'error'; runCmd listens for 'close' only, the event is thrown as an
\* uncaught exception and the promise never settles.
Spawn(i) ==
  /\ calls[i].pc = "spawn"
  /\ \E ok \in BOOLEAN :
       calls' = [calls EXCEPT ![i] =
         IF ok
         THEN [@ EXCEPT !.pc = "child", !.phase = "running", !.timer = "armed",
                        !.spawned = TRUE]
         ELSE [@ EXCEPT !.pc = "hung", !.outcome = Some(Fault("spawn"))]]
  /\ UNCHANGED <<tmpdir, editorVars, pureVars>>

\* the child writes its output and ends by itself with an exit code, leaving
\* report.json as it is then; the chunks reach the handlers of lines 349-350
\* before 'close'
ChildExit(i) ==
  /\ calls[i].pc = "child" /\ calls[i].phase = "running"
  /\ \E status \in {0, 1}, file \in ReportFiles :
       /\ calls' = [calls EXCEPT ![i] =
            [@ EXCEPT !.phase = "exited", !.code = Some(status),
                      !.stdout = Append(@, "vitest output"),
                      !.stderr = IF status = 0 THEN @ ELSE Append(@, "vitest errors")]]
       /\ tmpdir' = IF calls[i].dir[1] \in DOMAIN tmpdir
                    THEN [tmpdir EXCEPT ![calls[i].dir[1]].report = file]
                    ELSE tmpdir
  /\ UNCHANGED <<editorVars, pureVars>>

\* the timer, were it to append the marker and kill nothing
TimerFire_NoKill(i) ==
  /\ calls[i].pc = "child" /\ calls[i].timer = "armed"
  /\ calls' = [calls EXCEPT ![i] =
       [@ EXCEPT !.timer = "fired",
                 !.stderr = Append(@, TimeoutMarker)]]
  /\ UNCHANGED tmpdir
  /\ UNCHANGED <<editorVars, pureVars>>

\* lines 344-347: the timer fires: the marker is appended and the child is
\* sent SIGKILL, which ends it with no exit code if it still runs and does
\* nothing if it has exited
TimerFire(i) ==
  /\ calls[i].pc = "child" /\ calls[i].timer = "armed"
  /\ calls' = [calls EXCEPT ![i] =
       [@ EXCEPT !.timer = "fired",
                 !.stderr = Append(@, TimeoutMarker),
                 !.phase = "exited",
                 !.killed = (calls[i].phase = "running")]]
  /\ UNCHANGED tmpdir
  /\ UNCHANGED <<editorVars, pureVars>>

\* code ?? 0 in place of code ?? 1
CloseExitCode_ZeroDefault(status) == IF status = NULL THEN 0 ELSE status[1]
\* line 354: exitCode: code ?? 1
CloseExitCode(status) == IF status = NULL THEN 1 ELSE status[1]

\* lines 352-355: 'close': the child has ended and its stdio is closed
ChildClose(i) ==
  /\ calls[i].pc = "child" /\ calls[i].phase = "exited"
  /\ calls' = [calls EXCEPT ![i] =
       [@ EXCEPT !.pc = "report",
                 !.timer = IF @ = "armed" THEN "cleared" ELSE @,
                 !.exitCode = Some(CloseExitCode(calls[i].code))]]
  /\ UNCHANGED <<tmpdir, editorVars, pureVars>>

\* lines 434-441: JSON.parse(await readFile(report.json)) or null
ParseReport(file) ==
  IF file = NULL \/ ~file[1].json THEN NULL ELSE Some(file[1].value)

\* passed read from the report in place of the exit code
Passed_ByReport(exitCode, testsUi) == \A k \in 1..Len(testsUi) : testsUi[k].state # "fail"
\* line 443
Passed(exitCode, testsUi) == exitCode = 0

\* line 444: normalizeVitestReport(report) for each content of report.json,
\* tabulated
TestsOfReport == [file \in ReportFiles |-> normalizeVitestReport(ParseReport(file))]

\* the tail of the try block, were a missing report an error
RunResult_MissingReportIs500(c, file) ==
  IF ParseReport(file) = NULL
  THEN Response(500, [error |-> "report missing"])
  ELSE Response(200,
         [passed |-> Passed(c.exitCode[1], normalizeVitestReport(ParseReport(file))),
          stdout |-> c.stdout, stderr |-> c.stderr,
          tests |-> normalizeVitestReport(ParseReport(file)),
          report |-> ParseReport(file)])
\* lines 443-452: the response of a run
RunResult(c, file) ==
  LET report == ParseReport(file)
      testsUi == TestsOfReport[file]
  IN Response(200,
       [passed |-> Passed(c.exitCode[1], testsUi),
        stdout |-> c.stdout, stderr |-> c.stderr,
        tests |-> testsUi,
        report |-> report])

\* lines 434-452: read the report and build the response; the return goes
\* through the finally block
ReadReport(i) ==
  /\ calls[i].pc = "report"
  /\ LET c == calls[i]
         file == IF c.dir[1] \in DOMAIN tmpdir THEN tmpdir[c.dir[1]].report ELSE NULL
     IN calls' = [calls EXCEPT ![i] =
          [@ EXCEPT !.pc = "finally", !.reportFile = file,
                    !.pending = Some(RunResult(c, file))]]
  /\ UNCHANGED <<tmpdir, editorVars, pureVars>>

\* lines 453-456: await rm(dir, {recursive, force}), then the return or the
\* throw that entered the finally block
Cleanup(i) ==
  /\ calls[i].pc = "finally"
  /\ tmpdir' = [x \in DOMAIN tmpdir \ {calls[i].dir[1]} |-> tmpdir[x]]
  /\ calls' = [calls EXCEPT ![i] = Done(@, calls[i].pending[1])]
  /\ UNCHANGED <<editorVars, pureVars>>

InitRun ==
  /\ EditorInit /\ loopId = "loop-001"
  /\ ServerIdle
  /\ PureIdle

NextRun ==
  \/ Receive
  \/ \E i \in 1..Len(calls) : ReadTests(i)
  \/ \E i \in 1..Len(calls) : Mkdtemp(i)
  \/ \E i \in 1..Len(calls) : WriteFile(i)
  \/ \E i \in 1..Len(calls) : Spawn(i)
  \/ \E i \in 1..Len(calls) : ChildExit(i)
  \/ \E i \in 1..Len(calls) : TimerFire(i)
  \/ \E i \in 1..Len(calls) : ChildClose(i)
  \/ \E i \in 1..Len(calls) : ReadReport(i)
  \/ \E i \in 1..Len(calls) : Cleanup(i)

SpecRun == InitRun /\ [][NextRun]_vars

\* What the runtime does by itself for the invocation i: the timer fires 8000
\* ms after it was set, 'close' follows the end of the child, and the awaits
\* of readFile and rm settle.  That the child ends by itself is not assumed.
RuntimeStep(i) ==
  /\ i <= Len(calls)
  /\ TimerFire(i) \/ ChildClose(i) \/ ReadReport(i) \/ Cleanup(i)

\* The event loop runs a callback whenever one is due: a timer, a 'close' or
\* a settled await of some invocation is not left waiting for ever.
\* every invocation received so far is on its way to the sandbox or through
\* it: the body was a valid one, the tests were read, the workspace was
\* written and the process was spawned
Sandboxed ==
  \A i \in 1..Len(calls) :
    \A o \in {calls[i].pending, calls[i].outcome} :
      o = NULL \/ (o[1].kind = "response" /\ o[1].status = 200)

\* the steps of the invocations that reach the sandbox
NextSandboxed ==
  \/ Receive /\ Sandboxed'
  \/ \E i \in 1..Len(calls) : ReadTests(i) /\ Sandboxed'
  \/ \E i \in 1..Len(calls) : Mkdtemp(i) /\ Sandboxed'
  \/ \E i \in 1..Len(calls) : WriteFile(i) /\ Sandboxed'
  \/ \E i \in 1..Len(calls) : Spawn(i) /\ Sandboxed'
  \/ \E i \in 1..Len(calls) : ChildExit(i)
  \/ \E i \in 1..Len(calls) : TimerFire(i)
  \/ \E i \in 1..Len(calls) : ChildClose(i)
  \/ \E i \in 1..Len(calls) : ReadReport(i)
  \/ \E i \in 1..Len(calls) : Cleanup(i)

SpecRunFair ==
  /\ InitRun /\ [][NextSandboxed]_vars
  /\ WF_vars(\E i \in 1..Len(calls) : RuntimeStep(i))

\* ------------------------------------------- the rules engine on its inputs
\* The repository holds two versions of the engine under the name
\* gradeWithRules: the tiered one above and the one below, which takes no
\* tier and applies its three rules one after the other.
UntieredNudge == "Use the failing test output to compare what your function returns vs what the spec expects."
UntieredQuestions == <<"What shape is each item", "What should your predicate/condition return for the boundary case?", "What do you return from the function?">>

\* nudge and questions after the three if statements of lines 250-283
UntieredContent(src, failText) ==
  LET c0 == [nudge |-> UntieredNudge, questions |-> UntieredQuestions]
      c1 == IF TextIncludes(failText, "exactly 18") \/ TextIncludes(failText, "includes users")
            THEN [nudge |-> "This looks like a boundary case",
                  questions |-> <<"Are you using > or >= in your condition?",
                                  "If age is 18, should your condition return true or false?",
                                  "Try running your predicate on a single { age: 18 } value">>]
            ELSE c0
      c2 == IF comparingObjectToNumber(src)
            THEN [nudge |-> "Your condition is comparing an object to a number",
                  questions |-> <<"Inside filter, what is user", "Which property holds the age value?",
                                  "Does your condition return a boolean for each item?">>]
            ELSE c1
  IN IF missingReturn(src)
     THEN [nudge |-> "Make sure your function returns the filtered array (not undefined).",
           questions |-> <<"Are you returning the result of users.filter",
                           "What does your function return right now?">>]
     ELSE c2

\* the engine, were its payload to carry the flag only for an exercise
\* without rules
gradeWithRulesUntiered_FlagOff(args) ==
  LET fails == FilterFail(args.failingTests)
      failText == textFromFails(fails)
      specific == args.loop.id = "loop-001"
      content == IF specific THEN UntieredContent(args.code, failText)
                 ELSE [nudge |-> UntieredNudge, questions |-> UntieredQuestions]
  IN [nudge |-> content.nudge,
      questions |-> Slice(content.questions, 3),
      doc |-> IF specific THEN FilterDoc(args.loop, firstDoc(args.loop))
              ELSE firstDoc(args.loop),
      safety |-> [no_full_solution |-> ~specific, notes |-> "rules-engine"]]
\* args: [loop, code, failingTests]
gradeWithRulesUntiered(args) ==
  LET fails == FilterFail(args.failingTests)
      failText == textFromFails(fails)
      specific == args.loop.id = "loop-001"
      content == IF specific THEN UntieredContent(args.code, failText)
                 ELSE [nudge |-> UntieredNudge, questions |-> UntieredQuestions]
  IN [nudge |-> content.nudge,
      questions |-> Slice(content.questions, 3),
      doc |-> IF specific THEN FilterDoc(args.loop, firstDoc(args.loop))
              ELSE firstDoc(args.loop),
      safety |-> [no_full_solution |-> TRUE, notes |-> "rules-engine"]]

\* length of the list of tests handed to the engine
MaxFails == 2

\* the tests a caller may send: each test as failed, and the boundary test
\* as passed, which the filter of the engine must drop
TestRecords ==
  {[name |-> n, state |-> "fail"] : n \in AllTestNames}
    \cup {[name |-> NameExactly, state |-> "pass"]}
TestLists == SeqsUpTo(TestRecords, MaxFails)

\* the tier of a call: none, or a number
Tiers == {NULL} \cup {Some(n) : n \in -1..4}

GradeInputs ==
  {[fn |-> "gradeWithRules",
    arg |-> [loop |-> LoopJson(l), code |-> c, failingTests |-> ts, tier |-> t]] :
     l \in Loops, c \in AllCodes, ts \in TestLists, t \in Tiers}
  \cup
  {[fn |-> "gradeWithRulesUntiered",
    arg |-> [loop |-> LoopJson(l), code |-> c, failingTests |-> ts]] :
     l \in Loops, c \in AllCodes, ts \in TestLists}

InitGrade ==
  /\ EditorInit /\ loopId = "loop-001"
  /\ ServerIdle
  /\ input \in GradeInputs
  /\ output = NULL

ApplyGrade ==
  /\ input.fn = "gradeWithRules" /\ output = NULL
  /\ output' = Some(gradeWithRules(input.arg))
  /\ UNCHANGED <<editorVars, serverVars, input>>

ApplyGradeUntiered ==
  /\ input.fn = "gradeWithRulesUntiered" /\ output = NULL
  /\ output' = Some(gradeWithRulesUntiered(input.arg))
  /\ UNCHANGED <<editorVars, serverVars, input>>

NextGrade == ApplyGrade \/ ApplyGradeUntiered

SpecGrade == InitGrade /\ [][NextGrade]_vars

\* ---------------------------------------- the normalizer on any JSON value
\* report.json may hold any JSON value.  Here a value carries its type: the
\* text of a string is its sequence of characters, an array holds a sequence
\* of values and an object a record of values.  A TypeError thrown by the
\* normalizer is an outcome of its own.
JUndefined == [t |-> "undefined"]
JNullV == [t |-> "null"]
JBool(b) == [t |-> "boolean", b |-> b]
JArr(xs) == [t |-> "array", a |-> xs]
JObj(fields) == [t |-> "object", o |-> fields]

Nullish(v) == v.t \in {"undefined", "null"}
\* !v
Falsy(v) ==
  \/ Nullish(v)
  \/ v.t = "boolean" /\ ~v.b
  \/ v.t = "number" /\ v.n = 0
  \/ v.t = "string" /\ v.s = <<>>
\* v?.f, and v.f of a value that is not nullish: only an object of JSON has
\* one of the properties the normalizer reads
Prop(v, f) == IF v.t = "object" /\ f \in DOMAIN v.o THEN v.o[f] ELSE JUndefined
\* a ?? b
Nn(a, b) == IF Nullish(a) THEN b ELSE a
\* Array.isArray(v)
IsArray(v) == v.t = "array"

Chars(s) ==
  CASE s = "true" -> <<"t", "r", "u", "e">>
    [] s = "false" -> <<"f", "a", "l", "s", "e">>
    [] s = "null" -> <<"n", "u", "l", "l">>
    [] s = "undefined" -> <<"u", "n", "d", "e", "f", "i", "n", "e", "d">>
    [] s = "[object Object]" ->
         <<"[", "o", "b", "j", "e", "c", "t", " ", "O", "b", "j", "e", "c", "t", "]">>
    [] s = "test" -> <<"t", "e", "s", "t">>
    [] s = "Unnamed test" ->
         <<"U", "n", "n", "a", "m", "e", "d", " ", "t", "e", "s", "t">>

\* String(v), and xs.join(sep): an element that is null or undefined is
\* joined as the empty string
RECURSIVE StringJ(_), JoinJ(_, _)
StringJ(v) ==
  CASE v.t = "string" -> v.s
    [] v.t = "number" -> IF v.n >= 0 THEN JsString(v.n) ELSE <<"-">> \o JsString(0 - v.n)
    [] v.t = "boolean" -> IF v.b THEN Chars("true") ELSE Chars("false")
    [] v.t = "null" -> Chars("null")
    [] v.t = "undefined" -> Chars("undefined")
    [] v.t = "object" -> Chars("[object Object]")
    [] v.t = "array" -> JoinJ(v.a, <<",">>)
JoinJ(xs, sep) ==
  IF Len(xs) = 0 THEN <<>>
  ELSE (IF Nullish(xs[1]) THEN <<>> ELSE StringJ(xs[1]))
       \o (IF Len(xs) = 1 THEN <<>> ELSE sep \o JoinJ(Tail(xs), sep))

\* toUiState(x) of a JSON value
toUiStateJ(x) == toUiState(IF Nullish(x) THEN NULL ELSE Some(Str(StringJ(x))))

\* for (const a of v): an array gives its elements, a string its characters,
\* any other value is not iterable
Iterable(v) == v.t \in {"array", "string"}
Items(v) == IF v.t = "array" THEN v.a ELSE [i \in 1..Len(v.s) |-> JStr(<<v.s[i]>>)]

\* line 289: a?.failureMessages?.join('\n') calls join on whatever the field
\* holds; only an array has it
AssertionThrows(a) ==
  LET fm == Prop(a, "failureMessages") IN ~Nullish(fm) /\ ~IsArray(fm)

\* lines 283-290
AssertionRecordJ(a, fileName) ==
  LET fm == Prop(a, "failureMessages")
      joined == IF IsArray(fm) THEN JoinJ(fm.a, <<"\n">>) ELSE <<>>
  IN [name |-> Nn(Prop(a, "fullName"), Nn(Prop(a, "title"), JStr(Chars("Unnamed test")))),
      state |-> toUiStateJ(Nn(Prop(a, "state"), Prop(a, "status"))),
      file |-> fileName,
      error |-> IF joined = <<>> THEN JUndefined ELSE JStr(joined)]

\* lines 279-281: the assertions of a file of shape A
AssertionsOf(file) == Nn(Prop(file, "assertionResults"), JArr(<<>>))
FileThrowsA(file) ==
  \/ ~Iterable(AssertionsOf(file))
  \/ \E j \in 1..Len(Items(AssertionsOf(file))) : AssertionThrows(Items(AssertionsOf(file))[j])

\* lines 314-321
NodeErrorJ(node) ==
  LET res == Prop(node, "result")
      message == Prop(Prop(res, "error"), "message")
      errors == Prop(res, "errors")
  IN IF ~Falsy(message) THEN message
     ELSE IF IsArray(errors)
          THEN JStr(JoinJ(SelectSeq([i \in 1..Len(errors.a) |-> Prop(errors.a[i], "message")],
                                    LAMBDA m : ~Falsy(m)),
                          <<"\n">>))
          ELSE JUndefined

\* lines 308-322
NodeRecordJ(node, fileName) ==
  [name |-> Nn(Prop(node, "name"), JStr(Chars("Unnamed test"))),
   state |-> toUiStateJ(Nn(Prop(Prop(node, "result"), "state"), Prop(node, "state"))),
   file |-> fileName,
   error |-> NodeErrorJ(node)]

\* lines 302-326
RECURSIVE walkJ(_, _)
walkJ(node, fileName) ==
  IF Falsy(node) THEN <<>>
  ELSE (IF Prop(node, "type") = JStr(Chars("test"))
        THEN <<NodeRecordJ(node, fileName)>> ELSE <<>>)
       \o (IF IsArray(Prop(node, "tasks"))
           THEN Flatten([i \in 1..Len(Prop(node, "tasks").a) |->
                           walkJ(Prop(node, "tasks").a[i], fileName)])
           ELSE <<>>)

\* lines 300 and 328: roots.forEach is called on whatever f.tasks holds; only
\* an array has it
RootsOf(f) == Nn(Prop(f, "tasks"), JArr(<<>>))
FileThrowsB(f) == ~IsArray(RootsOf(f))

Thrown == [threw |-> TRUE]
Value(list) == [threw |-> FALSE, value |-> list]

\* normalizeVitestReport(report) of any JSON value, or of undefined
normalizeVitestReportJson(report) ==
  IF Falsy(report) THEN Value(<<>>)
  ELSE IF IsArray(Prop(report, "testResults")) THEN
    LET files == Prop(report, "testResults").a
    IN IF \E i \in 1..Len(files) : FileThrowsA(files[i]) THEN Thrown
       ELSE Value(Flatten([i \in 1..Len(files) |->
              [j \in 1..Len(Items(AssertionsOf(files[i]))) |->
                 AssertionRecordJ(Items(AssertionsOf(files[i]))[j], Prop(files[i], "name"))]]))
  ELSE IF IsArray(Prop(report, "files")) THEN
    LET files == Prop(report, "files").a
    IN IF \E i \in 1..Len(files) : FileThrowsB(files[i]) THEN Thrown
       ELSE Value(Flatten([i \in 1..Len(files) |->
              Flatten([j \in 1..Len(RootsOf(files[i]).a) |->
                 walkJ(RootsOf(files[i]).a[j], Prop(files[i], "name"))])]))
  ELSE Value(<<>>)

\* values of a type a field is not meant to have, and well-typed ones
OddValues ==
  {JNullV, JNum(5), JNum(0), JStr(<<>>), JStr(<<"a", "b">>), JBool(TRUE),
   JObj(<<>>), JArr(<<>>)}
JName == JStr(<<"t", "1">>)
MessageLists == {JArr(<<JStr(<<"m">>)>>), JArr(<<JNum(1), JNullV>>)}
AssertionsJ ==
  OddValues
  \cup {JObj([title |-> JName, status |-> JStr(Chars("test")), failureMessages |-> o]) :
          o \in OddValues \cup MessageLists}
  \cup {JObj([fullName |-> o, state |-> o]) : o \in OddValues}
FilesJA ==
  OddValues
  \cup {JObj([assertionResults |-> o]) : o \in OddValues}
  \cup {JObj([name |-> JName, assertionResults |-> JArr(<<a>>)]) : a \in AssertionsJ}
ResultsJ ==
  OddValues
  \cup {JObj([state |-> o, error |-> o, errors |-> o]) : o \in OddValues}
  \cup {JObj([error |-> JObj([message |-> o]), errors |-> JArr(<<o, JObj([message |-> o])>>)]) :
          o \in OddValues}
NodesJ ==
  OddValues
  \cup {JObj([type |-> JStr(Chars("test")), name |-> JName, result |-> r]) : r \in ResultsJ}
  \cup {JObj([type |-> JStr(Chars("test")), name |-> o, state |-> o, tasks |-> o]) : o \in OddValues}
  \cup {JObj([type |-> o, tasks |-> JArr(<<o, JObj([type |-> JStr(Chars("test"))])>>)]) : o \in OddValues}
FilesJB ==
  OddValues
  \cup {JObj([tasks |-> o]) : o \in OddValues}
  \cup {JObj([name |-> JName, tasks |-> JArr(<<n>>)]) : n \in NodesJ}
ReportsJ ==
  {JUndefined} \cup OddValues
  \cup {JObj([tests |-> JArr(<<>>)])}
  \cup {JObj([testResults |-> o, files |-> JArr(<<>>)]) : o \in OddValues}
  \cup {JObj([files |-> o]) : o \in OddValues}
  \cup {JObj([testResults |-> JArr(<<f>>)]) : f \in FilesJA}
  \cup {JObj([files |-> JArr(<<f>>)]) : f \in FilesJB}

InitJson ==
  /\ EditorInit /\ loopId = "loop-001"
  /\ ServerIdle
  /\ input \in {[fn |-> "normalizeVitestReportJson", arg |-> r] : r \in ReportsJ}
  /\ output = NULL

ApplyNormalizeJson ==
  /\ input.fn = "normalizeVitestReportJson" /\ output = NULL
  /\ output' = Some(normalizeVitestReportJson(input.arg))
  /\ UNCHANGED <<editorVars, serverVars, input>>

NextJson == ApplyNormalizeJson

SpecJson == InitJson /\ [][NextJson]_vars

\* ------------------------------------------------- the editor never reset
\* The editor on one exercise with hint requests, hint replies and test runs
\* in any order: no reset, no navigation, and nothing edits the store.
NextNoReset ==
  \/ handleRunTests
  \/ RunResponse
  \/ handleGetHint
  \/ HintResponse

SpecNoReset == Init /\ [][NextNoReset]_vars

\* ------------------------------------------------ the editor mounted anew
\* The editor is unmounted and mounted again on exercise l (a reload of the
\* page): a new instance whose state is that of useState (lines 75-86), the
\* store being what it was.  The effects of the mount run in the order of
\* their declaration with the values of that first render: the sync effect
\* reads the store and queues what it read, the persist effects write
\* hintBudget and 0.  A development build of React runs the effects of a
\* mount a second time before it renders the queued updates (twice = TRUE):
\* the sync effect then reads what the persist effects have just written.
\* The render that follows has the values queued last and runs the persist
\* effects whose value changed.  The continuations of the requests of the
\* old instance set the state of an unmounted component: they do nothing.
Remount(l, twice) ==
  LET h0 == LoopJson(l).hintBudget
      t0 == 0
      written == PersistTier(PersistTokens(localStorage, l, h0), l, t0)
      read == IF twice THEN written ELSE localStorage
      h == LoadTokens(read, l)
      t == LoadTier(read, l)
      second == IF h # h0 THEN PersistTokens(written, l, h) ELSE written
      third == IF t # t0 THEN PersistTier(second, l, t) ELSE second
  IN /\ loopId' = l
     /\ code' = LoopJson(l).starter
     /\ running' = FALSE
     /\ result' = NULL
     /\ runError' = NULL
     /\ coach' = NULL
     /\ coachError' = NULL
     /\ coachLoading' = FALSE
     /\ hintsLeft' = h
     /\ tierUsed' = t
     /\ localStorage' = third
     /\ runReqs' = {}
     /\ hintReqs' = EmptyBag
     /\ refused' = FALSE
     /\ sinceReset' = FALSE
     /\ UNCHANGED <<serverVars, pureVars>>

NextRemount ==
  \/ handleRunTests
  \/ RunResponse
  \/ handleGetHint
  \/ HintResponse
  \/ handleResetHintsDev
  \/ \E l \in Loops, twice \in BOOLEAN : Remount(l, twice)

SpecRemount == Init /\ [][NextRemount]_vars

\* ------------------------------------------------------------- the claims
\* steps of the editor, told by what they do to the state
HintSent(req) == hintReqs' = hintReqs (+) SetToBag({req})
\* the success branch of the continuation of req
RevealOf(req) == hintReqs' = hintReqs (-) SetToBag({req}) /\ coach' # NULL
InFlight == BagToSet(hintReqs)

\* the budget state of exercise l: in memory when l is shown, else as stored
TokensOf(l) == IF l = loopId THEN hintsLeft ELSE LoadTokens(localStorage, l)
TierOf(l) == IF l = loopId THEN tierUsed ELSE LoadTier(localStorage, l)

\* C1: the payload displayed by a successful reveal has the tier that was
\* requested, which is highestTierUnlocked right after the reveal.
C1_PayloadTierIsRequested ==
  [][\A req \in InFlight :
       RevealOf(req) => coach'[1].tier = req.tier /\ coach'[1].tier = tierUsed']_vars

\* C2: for every exercise, highestTierUnlocked never decreases and
\* tokensRemaining never increases in a step that is not the reset.
C2_Monotonic ==
  [][handleResetHintsDev
       \/ \A l \in Loops : TierOf(l)' >= TierOf(l) /\ TokensOf(l)' <= TokensOf(l)]_vars

\* C3: a hint request is sent with, and a reveal is applied for, the failing
\* tests of the latest run only: never those of a run that a later run has
\* followed.
C3_OnlyLatestRun ==
  [][/\ \A req \in BagToSet(hintReqs') : HintSent(req) => ~req.stale
     /\ \A req \in InFlight : RevealOf(req) => ~req.stale]_vars

\* C4: every successful reveal takes exactly one token (floored at 0) and
\* raises highestTierUnlocked by exactly one, to the requested tier.
C4_RevealStepsByOne ==
  [][\A req \in InFlight :
       RevealOf(req) => /\ hintsLeft' = Max(0, hintsLeft - 1)
                        /\ tierUsed' = tierUsed + 1
                        /\ tierUsed' = req.tier]_vars

\* C5 (SpecSeq, budget 3): the budget state is (3,0), (2,1), (1,2) or (0,3)
\* as <<tokens, tier>>; every successful reveal moves it one place on, so
\* three reveals give tiers 1, 2, 3 and tokens 2, 1, 0; at (0,3) a reveal
\* attempt is refused: nothing is sent and the state is unchanged.
C5_ThreeReveals ==
  /\ [](hintsLeft = 3 - tierUsed /\ tierUsed \in 0..3)
  /\ [][\A req \in InFlight :
          RevealOf(req) => tierUsed' = tierUsed + 1 /\ hintsLeft' = hintsLeft - 1]_vars
  /\ [][(tierUsed = 3 /\ handleGetHint)
          => refused' /\ UNCHANGED <<hintsLeft, tierUsed, hintReqs, coach, localStorage>>]_vars

C5_Witness == refused /\ tierUsed = 3 /\ hintsLeft = 0 /\ showCoachControls

\* the four conditions of a reveal
HasFailingTest == \E i \in 1..Len(tests) : tests[i].state = "fail"
FourConditions ==
  /\ hintBudget > 0
  /\ HasFailingTest
  /\ hintsLeft > 0
  /\ tierUsed < Min(3, hintBudget)
\* the handler went on to call the grade endpoint
Sent == BagCardinality(hintReqs') = BagCardinality(hintReqs) + 1

\* C6 as stated: a reveal attempt is let through iff the four conditions hold.
C6_FourConditions == [][handleGetHint => (Sent <=> FourConditions)]_vars

\* C6 as amended: a reveal attempt is let through iff the four conditions
\* hold and the verdict of the run held by the editor is not passed.
C6_FourConditionsAndFailedRun ==
  [][handleGetHint => (Sent <=> (FourConditions /\ ~result[1].passed))]_vars

C6_Witness ==
  /\ coachLoading /\ hintReqs # EmptyBag
  /\ FourConditions /\ ~result[1].passed

\* a well-formed coaching payload
WellFormedPayload(b) ==
  /\ b # NULL
  /\ {"tier", "nudge", "questions", "doc", "safety"} \subseteq DOMAIN b
  /\ b.tier \in 1..3
  /\ {"label", "url"} \subseteq DOMAIN b.doc
  /\ "no_full_solution" \in DOMAIN b.safety /\ b.safety.no_full_solution = TRUE

\* C7: sending a hint request changes neither tokensRemaining nor
\* highestTierUnlocked, and the continuation of a hint request whose reply is
\* a throw, a non-OK status or a body that is no well-formed coaching payload
\* leaves them as they were, in memory and in the store: a step that changes
\* one of them is no such step.
C7_FailedRequestKeepsBudget ==
  /\ [][handleGetHint => UNCHANGED <<hintsLeft, tierUsed, localStorage>>]_vars
  /\ [][UNCHANGED <<hintsLeft, tierUsed, localStorage>>
          \/ \A req \in InFlight : \A thrown \in BOOLEAN, res \in GradeReplies(req) :
               ~(/\ thrown \/ ~ResOk(res) \/ ~WellFormedPayload(res.body)
                 /\ HintContinuation(req, thrown, res))]_vars

C7_Witness == coachError # NULL /\ coach = NULL /\ tierUsed > 0 /\ hintsLeft > 0

\* C8: a reveal attempt made while the reveal conditions do not hold changes
\* neither the budget state nor the displayed payload, and sends nothing.
C8_RefusedAttemptIsNoOp ==
  [][(handleGetHint /\ ~FourConditions)
       => UNCHANGED <<hintsLeft, tierUsed, coach, hintReqs, localStorage>>]_vars

C8_Witness == refused /\ coach # NULL /\ HasFailingTest /\ hintsLeft = 0

\* C9: starting a run and receiving its result leave tokensRemaining and
\* highestTierUnlocked unchanged, in memory and in the store (a step that
\* changes one of them is neither); the start clears the displayed payload,
\* the coach error and the loading flag.
C9_RunKeepsBudget ==
  /\ [][UNCHANGED <<hintsLeft, tierUsed, localStorage>>
          \/ ~(handleRunTests \/ RunResponse)]_vars
  /\ [][handleRunTests => coach' = NULL /\ coachError' = NULL /\ ~coachLoading']_vars

\* a run started over the result of an earlier one, with part of the budget spent
C9_Witness ==
  /\ running /\ result # NULL /\ result[1].stale
  /\ tierUsed > 0 /\ hintsLeft < hintBudget /\ hintReqs = EmptyBag

\* C10: 0 <= tokensRemaining <= totalBudget and
\* 0 <= highestTierUnlocked <= min(3, totalBudget) in every state.
C10_BudgetBounds ==
  /\ 0 <= hintsLeft /\ hintsLeft <= hintBudget
  /\ 0 <= tierUsed /\ tierUsed <= Min(3, hintBudget)

\* the budget state of the exercise shown is what the reset makes it, in
\* memory and in the store
IsResetState ==
  /\ hintsLeft = hintBudget /\ tierUsed = 0
  /\ getItem(localStorage, hintsKey(loopId)) = Some(JsString(hintBudget))
  /\ getItem(localStorage, tierKey(loopId)) = Some(JsString(0))

\* C11: the reset sets tokensRemaining = totalBudget and
\* highestTierUnlocked = 0 in memory and in the store of the exercise shown,
\* and they stay so until the next hint request is issued.
C11_ResetRestoresAndHolds ==
  /\ [][handleResetHintsDev => IsResetState']_vars
  /\ [](sinceReset => IsResetState)

\* the leaf assertions / tests of a report, in the order the report lists them
RECURSIVE LeafTests(_)
LeafTests(tasks) ==
  Flatten([i \in 1..Len(tasks) |->
             IF tasks[i].type = "suite" THEN LeafTests(tasks[i].tasks) ELSE <<tasks[i]>>])

Leaves(report) ==
  IF "testResults" \in DOMAIN report
  THEN Flatten([i \in 1..Len(report.testResults) |->
                  IF "assertionResults" \in DOMAIN report.testResults[i]
                  THEN report.testResults[i].assertionResults ELSE <<>>])
  ELSE Flatten([i \in 1..Len(report.files) |->
                  IF "tasks" \in DOMAIN report.files[i]
                  THEN LeafTests(report.files[i].tasks) ELSE <<>>])

\* the name a leaf is reported under
LeafName(leaf) ==
  IF "fullName" \in DOMAIN leaf THEN leaf.fullName
  ELSE IF "title" \in DOMAIN leaf THEN leaf.title
  ELSE IF "name" \in DOMAIN leaf THEN leaf.name
  ELSE "Unnamed test"

\* the state a leaf carries: at the leaf (state, else status), or in its result
LeafState(leaf) ==
  IF "type" \in DOMAIN leaf
  THEN (IF "result" \in DOMAIN leaf /\ "state" \in DOMAIN leaf.result
        THEN Some(leaf.result.state)
        ELSE IF "state" \in DOMAIN leaf THEN Some(leaf.state) ELSE NULL)
  ELSE (IF "state" \in DOMAIN leaf THEN Some(leaf.state)
        ELSE IF "status" \in DOMAIN leaf THEN Some(leaf.status) ELSE NULL)

\* two characters that differ at most in case
SameLetter(a, b) ==
  a = b \/ \E i \in DOMAIN Upper : {a, b} = {Upper[i], Lower[i]}
\* the characters spell the word, case apart
Spells(chars, word) ==
  Len(chars) = Len(word) /\ \A i \in 1..Len(word) : SameLetter(chars[i], word[i])

\* the canonical state of a raw state value
CanonState(x) ==
  IF x = NULL \/ "str" \notin DOMAIN x[1] THEN "unknown"
  ELSE LET c == x[1].str
       IN IF Spells(c, StrPass) \/ Spells(c, StrPassed) THEN "pass"
          ELSE IF Spells(c, StrFail) \/ Spells(c, StrFailed) THEN "fail"
          ELSE IF Spells(c, StrSkip) \/ Spells(c, StrSkipped) THEN "skip"
          ELSE IF Spells(c, StrTodo) THEN "todo"
          ELSE "unknown"

Normalized == input.fn = "normalizeVitestReport" /\ output # NULL

\* C19: for a report of shape (A) or (B), normalize returns one record per
\* leaf assertion / test, in the report's order, none dropped or duplicated,
\* and every record's state is one of pass, fail, skip, todo, unknown.
C19_OneRecordPerLeaf ==
  Normalized =>
    LET leaves == Leaves(input.arg[1])
        out == output[1]
    IN /\ Len(out) = Len(leaves)
       /\ \A i \in 1..Len(out) :
            /\ out[i].name = LeafName(leaves[i])
            /\ out[i].state \in AllUiStates

\* a report with a suite in a suite, tests at each depth, normalized
C19_Witness ==
  /\ Normalized
  /\ "files" \in DOMAIN input.arg[1]
  /\ \E f \in 1..Len(input.arg[1].files) :
       /\ "tasks" \in DOMAIN input.arg[1].files[f]
       /\ \E i \in 1..Len(input.arg[1].files[f].tasks) :
            LET outer == input.arg[1].files[f].tasks[i]
            IN /\ i > 1 /\ outer.type = "suite"
               /\ \E j \in 1..Len(outer.tasks) :
                    /\ j > 1 /\ outer.tasks[j].type = "suite"
                    /\ Len(outer.tasks[j].tasks) > 0
  /\ Len(output[1]) >= 3

\* C20: the state mapping is total and ignores case: pass/passed give pass,
\* fail/failed fail, skip/skipped skip, todo todo, anything else (a missing
\* state too) unknown; and a test whose state is not recognized has its
\* record, with state unknown, in the normalized list.
C20_StateMapping ==
  /\ (input.fn = "toUiState" /\ output # NULL) => output[1] = CanonState(input.arg)
  /\ Normalized =>
       LET leaves == Leaves(input.arg[1])
       IN /\ Len(output[1]) >= Len(leaves)
          /\ \A i \in 1..Len(leaves) : output[1][i].state = CanonState(LeafState(leaves[i]))

\* FAILED mapped to fail
C20_Witness ==
  /\ input.fn = "toUiState"
  /\ input.arg = Some(Str(<<"F", "A", "I", "L", "E", "D">>))
  /\ output = Some("fail")

\* ------------------------------------------------- claims on the run handler
Calls == 1..Len(calls)
Returned(c) == c.pc = "done" /\ c.outcome[1].kind = "response"
HasMarker(stderr) == \E k \in 1..Len(stderr) : stderr[k] = TimeoutMarker

\* C12: a run whose child is still executing when the wall-clock timer fires
\* answers with passed = false and a non-empty stderr that contains the
\* timeout marker.
C12_TimeoutFails ==
  \A i \in Calls :
    (calls[i].killed /\ calls[i].pc = "done") =>
      /\ Returned(calls[i])
      /\ calls[i].outcome[1].status = 200
      /\ ~calls[i].outcome[1].body.passed
      /\ calls[i].outcome[1].body.stderr # <<>>
      /\ HasMarker(calls[i].outcome[1].body.stderr)
C12_Witness ==
  \E i \in Calls : calls[i].killed /\ calls[i].pc = "done" /\ calls[i].exitCode = Some(1)

\* C13: once an invocation that created a workspace has returned or thrown,
\* whatever the path (tests passed or failed, an artifact could not be
\* written, timeout, report missing or corrupt), its workspace is gone.
C13_WorkspaceRemoved ==
  \A i \in Calls :
    (calls[i].pc = "done" /\ calls[i].dir # NULL) =>
      ~\E d \in DOMAIN tmpdir : tmpdir[d].owner = i
C13_Witness ==
  \E i \in Calls :
    /\ calls[i].pc = "done" /\ calls[i].dir # NULL
    /\ calls[i].outcome = Some(Fault("writeFile"))
    /\ calls[i].written = 2
    /\ ~\E d \in DOMAIN tmpdir : tmpdir[d].owner = i

\* C14: the passed flag of a run's response is exactly "the exit code is 0",
\* whatever the report holds.
C14_PassedIsExitZero ==
  \A i \in Calls :
    (Returned(calls[i]) /\ calls[i].outcome[1].status = 200) =>
      calls[i].outcome[1].body.passed = (calls[i].exitCode = Some(0))
C14_Witness ==
  \E i \in Calls :
    /\ Returned(calls[i]) /\ calls[i].exitCode = Some(0)
    /\ calls[i].outcome[1].body.passed
    /\ \E k \in 1..Len(calls[i].outcome[1].body.tests) :
         calls[i].outcome[1].body.tests[k].state = "fail"

\* C15: a run that ends with a non-zero exit code and a report that is
\* missing or is no JSON is answered normally: passed = false, an empty test
\* list, and the captured stdout and stderr.
C15_MissingReport ==
  \A i \in Calls :
    (/\ calls[i].pc = "done" /\ calls[i].exitCode # NULL /\ calls[i].exitCode # Some(0)
     /\ ParseReport(calls[i].reportFile) = NULL) =>
      /\ Returned(calls[i])
      /\ calls[i].outcome[1].status = 200
      /\ ~calls[i].outcome[1].body.passed
      /\ calls[i].outcome[1].body.tests = <<>>
      /\ calls[i].outcome[1].body.stdout = calls[i].stdout
      /\ calls[i].outcome[1].body.stderr = calls[i].stderr
C15_Witness ==
  \E i \in Calls :
    /\ calls[i].pc = "done" /\ calls[i].exitCode = Some(1)
    /\ calls[i].reportFile = Some(Corrupt)
    /\ calls[i].stderr # <<>>
    /\ Returned(calls[i])

\* the exercise id or the source code is missing, empty or not a string
BadFields(body) ==
  body.json /\ (NotAString(Get(body.value, "loopId")) \/ NotAString(Get(body.value, "code")))

\* C16: a request whose body is not JSON, or whose exercise id or source code
\* is missing, empty or not a string, is answered 400; one whose tests cannot
\* be read is answered 404; in each case no workspace was created and no
\* process was spawned.
C16_RejectedBeforeSandbox ==
  \A i \in Calls :
    LET c == calls[i] IN
    /\ (~c.body.json \/ BadFields(c.body)) =>
         /\ Returned(c) /\ c.outcome[1].status = 400
         /\ c.dir = NULL /\ ~c.spawned
    /\ (c.body.json /\ ~BadFields(c.body) /\ c.pc = "done"
        /\ ~TestsReadable(c.body.value[1].loopId.s)) =>
         /\ Returned(c) /\ c.outcome[1].status = 404
         /\ c.dir = NULL /\ ~c.spawned

\* C17: a failure to create the workspace, to write an artifact or to spawn
\* the process never leaves the handler as an exception: the invocation
\* answers with a response.
C17_FailuresBecomeResults ==
  \A i \in Calls :
    calls[i].outcome # NULL =>
      ~(/\ calls[i].outcome[1].kind = "fault"
        /\ calls[i].outcome[1].at \in {"mkdtemp", "writeFile", "spawn"})

\* C18: two invocations in progress never have the same workspace, and a step
\* of one invocation leaves the workspace of every other one as it was.
C18_OwnWorkspace ==
  /\ [](\A i, j \in Calls :
          (/\ i # j
           /\ calls[i].dir # NULL /\ calls[i].pc # "done"
           /\ calls[j].dir # NULL /\ calls[j].pc # "done") =>
            calls[i].dir # calls[j].dir)
  /\ [][\A j \in Calls :
          (calls'[j] = calls[j] /\ calls[j].dir # NULL /\ calls[j].pc # "done") =>
            /\ calls[j].dir[1] \in DOMAIN tmpdir'
            /\ tmpdir'[calls[j].dir[1]] = tmpdir[calls[j].dir[1]]]_vars
C18_Witness ==
  /\ Len(calls) = 2
  /\ calls[1].pc = "child" /\ calls[2].pc = "report"
  /\ calls[1].dir # calls[2].dir
  /\ tmpdir[calls[2].dir[1]].report # NULL /\ tmpdir[calls[1].dir[1]].report = NULL

\* ------------------------------------------------ claims on the rules engine
Graded == input # NULL /\ input.fn \in {"gradeWithRules", "gradeWithRulesUntiered"} /\ output # NULL
Tiered == Graded /\ input.fn = "gradeWithRules"

\* a failing test whose name mentions the boundary case
BoundaryFails(ts) ==
  \E k \in 1..Len(ts) : ts[k].state = "fail" /\ ts[k].name \in {NameExactly, NameExactlyCaps}

\* the nudges of the comparison and of the boundary rule, and those of the
\* missing-return rule, in the texts of the two engines
ComparisonOrBoundaryNudges ==
  {"Your filter predicate is comparing an object to a number",
   "Your condition is comparing an object to a number",
   "This looks like a boundary case"}
MissingReturnNudges ==
  {"Make sure your function returns the filtered array.",
   "Make sure your function returns the filtered array (not undefined)."}

\* C22: for loop-001, a source that compares the whole record to a number and
\* a failing test named after the boundary case, the payload (of tier 1, where
\* it has a tier) carries the comparison or boundary nudge and not the
\* missing-return nudge, with or without a return keyword in the source.
C22_ComparisonNotMissingReturn ==
  (/\ Graded
   /\ input.arg.loop.id = "loop-001"
   /\ comparingObjectToNumber(input.arg.code)
   /\ BoundaryFails(input.arg.failingTests)
   /\ Tiered => output[1].tier = 1) =>
    /\ output[1].nudge \in ComparisonOrBoundaryNudges
    /\ output[1].nudge \notin MissingReturnNudges

\* C23: the nudge and the questions of a tiered payload are those of the first
\* rule, in the order comparison, boundary, missing return, whose predicate
\* matches, cut to the tier's number of questions; with no matching rule, or
\* an exercise without rules, they are the baseline nudge and questions.
C23_FirstMatchOrBaseline ==
  Tiered =>
    LET p == output[1]
        a == input.arg
        rule == IF a.loop.id = "loop-001"
                THEN MatchedRule(a.code, textFromFails(FilterFail(a.failingTests)))
                ELSE "none"
        max == IF p.tier = 1 THEN 2 ELSE 3
    IN IF rule = "none"
       THEN p.nudge = BaselineNudge /\ p.questions = SubSeq(BaselineQuestions, 1, max)
       ELSE /\ p.nudge = RuleContent(p.tier, rule).nudge
            /\ p.questions = SubSeq(RuleContent(p.tier, rule).questions, 1,
                                    Min(max, Len(RuleContent(p.tier, rule).questions)))

\* C24: a payload of tier 1 has at most 2 questions and no microExample, one
\* of tier 2 at most 3 questions and no microExample, one of tier 3 at most 3
\* questions; a payload with a microExample has tier 3.
C24_TierShape ==
  Tiered =>
    LET p == output[1]
    IN /\ p.tier = 1 => Len(p.questions) <= 2 /\ "microExample" \notin DOMAIN p
       /\ p.tier = 2 => Len(p.questions) <= 3 /\ "microExample" \notin DOMAIN p
       /\ p.tier = 3 => Len(p.questions) <= 3
       /\ "microExample" \in DOMAIN p => p.tier = 3
C24_Witness ==
  /\ Tiered
  /\ input.arg.loop.id = "loop-001" /\ input.arg.code = Starter /\ input.arg.tier = Some(1)
  /\ input.arg.failingTests = <<[name |-> NameOnly, state |-> "fail"]>>
  /\ Len(BaselineQuestions) = 3
  /\ output[1].questions = SubSeq(BaselineQuestions, 1, 2)

\* C25: the tier of the payload is the requested tier when that is 2 or 3,
\* and 1 for every other request (none, 0, negative, above 3).
C25_TierClamped ==
  Tiered =>
    /\ output[1].tier \in {1, 2, 3}
    /\ output[1].tier = (IF input.arg.tier \in {Some(2), Some(3)} THEN input.arg.tier[1] ELSE 1)
C25_Witness ==
  Tiered /\ input.arg.tier = Some(4) /\ output[1].tier = 1

\* C26: every payload of the engine, whatever the exercise, the source, the
\* tests and the tier, has the flag no_full_solution set to true.
C26_NoFullSolutionFlag ==
  Graded => output[1].safety.no_full_solution = TRUE
C26_Witness ==
  /\ Graded /\ input.fn = "gradeWithRulesUntiered"
  /\ input.arg.loop.id = "loop-001" /\ input.arg.code = CodeCmpReturn
  /\ output[1].safety.no_full_solution

\* --------------------------------- claims on the normalizer of any JSON value
\* a report that is absent, or has neither an array testResults nor an array
\* files
Unrecognized(r) ==
  \/ r.t # "object"
  \/ /\ ~("testResults" \in DOMAIN r.o /\ r.o.testResults.t = "array")
     /\ ~("files" \in DOMAIN r.o /\ r.o.files.t = "array")

\* C21: the normalizer throws for no report, and returns the empty list for an
\* absent report, for the empty object and for a report of unrecognized shape.
C21_NeverThrows ==
  (input # NULL /\ input.fn = "normalizeVitestReportJson" /\ output # NULL) =>
    /\ ~output[1].threw
    /\ Unrecognized(input.arg) => output[1].value = <<>>

\* C27: every invocation whose process was spawned comes to have the exit
\* code, stdout and stderr of the runner, the child having ended by itself or
\* having been killed by the timer, and to have returned its response: from
\* some moment on no spawned invocation is still waiting.
C27_Terminates ==
  <>[](\A i \in Calls :
         calls[i].spawned =>
           /\ calls[i].exitCode # NULL
           /\ Returned(calls[i]) /\ calls[i].outcome[1].status = 200)

C27_Witness ==
  \E i, j \in Calls :
    /\ calls[i].spawned /\ calls[i].killed /\ Returned(calls[i])
    /\ calls[j].spawned /\ calls[j].timer = "cleared" /\ Returned(calls[j])

\* C29: while a hint request awaits its reply, no step issues a second hint
\* request and no step is a reset.
C29_OneRequestInFlight ==
  [][InFlight # {} => (~Sent /\ ~handleResetHintsDev)]_vars

\* C28: without a reset, for every exercise the tokens spent equal the tiers
\* unlocked: totalBudget - tokensRemaining = highestTierUnlocked.
C28_SpentEqualsUnlocked ==
  \A l \in Loops : LoopJson(l).hintBudget - TokensOf(l) = TierOf(l)

\* the budget state of exercise l, in memory and as persisted
BudgetOf(l) ==
  <<TokensOf(l), TierOf(l), LoadTokens(localStorage, l), LoadTier(localStorage, l)>>

\* the step is a reveal or a reset requested for exercise l
RequestedFor(l) ==
  \/ \E req \in InFlight : req.loopId = l /\ RevealOf(req)
  \/ loopId = l /\ handleResetHintsDev

\* C30: the budget state of an exercise, in memory and persisted, is changed
\* only by a reveal or a reset requested for that exercise; neither a
\* navigation nor the reply to a hint request of another exercise changes it.
C30_IsolatedPerExercise ==
  [][\A l \in Loops : BudgetOf(l)' # BudgetOf(l) => RequestedFor(l)]_vars

\* C32: a run response whose stderr holds the timeout marker has passed =
\* false, whatever the order of the timer, the end of the child and 'close'.
C32_MarkerMeansFailed ==
  \A i \in Calls :
    (/\ Returned(calls[i]) /\ calls[i].outcome[1].status = 200
     /\ HasMarker(calls[i].outcome[1].body.stderr)) =>
      ~calls[i].outcome[1].body.passed

\* the store holds the budget state in memory under the keys of the exercise
\* shown
Persisted ==
  /\ getItem(localStorage, hintsKey(loopId)) = Some(JsString(hintsLeft))
  /\ getItem(localStorage, tierKey(loopId)) = Some(JsString(tierUsed))

\* C31: after a reveal or a reset the store holds exactly tokensRemaining and
\* highestTierUnlocked of memory under the keys of the exercise shown, and a
\* mount of the editor on that exercise restores exactly that state, which
\* the store then still holds.
C31_PersistenceRoundTrip ==
  [][/\ ((\E req \in InFlight : RevealOf(req)) \/ handleResetHintsDev) => Persisted'
     /\ (\E twice \in BOOLEAN : Remount(loopId, twice)) =>
          /\ hintsLeft' = hintsLeft /\ tierUsed' = tierUsed
          /\ Persisted']_vars

\* C33: the run result held by the editor is that of a run of the exercise
\* shown, and a hint request is sent only with the failing tests of a run of
\* the exercise it names.
C33_ResultOfShownExercise ==
  [][/\ result' # NULL => result'[1].loopId = loopId'
     /\ (handleGetHint /\ Sent) => result[1].loopId = loopId]_vars

====
